---- MODULE Spec2Model ----
(***************************************************************************)
(* ps2mqtt daemon (src/ps2mqtt/daemon.py): host statistics to MQTT.        *)
(*                                                                         *)
(* Text is modelled as a sequence of one-character strings, so that        *)
(* slugify and the topic formats are computed character by character.      *)
(* Numbers sampled from the host are integers; the byte counters are kept  *)
(* in units of 1000 bytes and the clock in whole clock units.              *)
(***************************************************************************)
EXTENDS Integers, Sequences, FiniteSets, TLC

\* ------------------------------------------------------------------ bounds
MaxClock == 2        \* largest reading of time.time() explored
MaxStepBack == 1     \* backward adjustments of the wall clock explored per run
MaxTicks == 2        \* executions of status explored per run
MaxConnects == 2     \* CONNACKs handled by the network loop per run

\* ------------------------------------------------------------- text literals
K_cpu_percent == <<"c", "p", "u", "_", "p", "e", "r", "c", "e", "n", "t">>
K_virtual_memory == <<"v", "i", "r", "t", "u", "a", "l", "_", "m", "e", "m", "o", "r", "y">>
K_uptime == <<"u", "p", "t", "i", "m", "e">>
K_bytes_sent == <<"b", "y", "t", "e", "s", "_", "s", "e", "n", "t">>
K_bytes_recv == <<"b", "y", "t", "e", "s", "_", "r", "e", "c", "v">>
K_upload == <<"u", "p", "l", "o", "a", "d">>
K_download == <<"d", "o", "w", "n", "l", "o", "a", "d">>
T_ps2mqtt == <<"p", "s", "2", "m", "q", "t", "t">>
T_status == <<"s", "t", "a", "t", "u", "s">>
T_sensor == <<"s", "e", "n", "s", "o", "r">>
T_config == <<"c", "o", "n", "f", "i", "g">>
T_homeassistant == <<"h", "o", "m", "e", "a", "s", "s", "i", "s", "t", "a", "n", "t">>
T_localhost == <<"l", "o", "c", "a", "l", "h", "o", "s", "t">>
U_percent == <<"%">>
U_MiB == <<"M", "i", "B">>
U_kbps == <<"k", "b", "p", "s">>
U_celsius == <<"d", "e", "g", "C">>
I_chip == <<"m", "d", "i", ":", "c", "h", "i", "p">>
I_memory == <<"m", "d", "i", ":", "m", "e", "m", "o", "r", "y">>
I_upload == <<"m", "d", "i", ":", "u", "p", "l", "o", "a", "d", "-", "n", "e", "t", "w", "o", "r", "k">>
I_download == <<"m", "d", "i", ":", "d", "o", "w", "n", "l", "o", "a", "d", "-", "n", "e", "t", "w", "o", "r", "k">>
D_timestamp == <<"t", "i", "m", "e", "s", "t", "a", "m", "p">>
D_temperature == <<"t", "e", "m", "p", "e", "r", "a", "t", "u", "r", "e">>
G_acpitz == <<"a", "c", "p", "i", "t", "z">>
G_coretemp == <<"c", "o", "r", "e", "t", "e", "m", "p">>
\* platform.node(), platform.platform(), platform.system() of the modelled host
Hostname == <<"M", "y", " ", "N", "a", "s">>
PlatformString == <<"L", "i", "n", "u", "x", "-", "6", ".", "1">>
SystemName == <<"L", "i", "n", "u", "x">>
Version == <<"0", ".", "0", ".", "3">>
BootIso == <<"2", "0", "2", "4", "-", "0", "1", "-", "0", "1", "T", "0", "0", ":", "0", "0", ":", "0", "0", "+", "0", "0", ":", "0", "0">>

MQTT_AVAILABLE == <<"o", "n", "l", "i", "n", "e">>
MQTT_NOT_AVAILABLE == <<"o", "f", "f", "l", "i", "n", "e">>
OPTIONAL_ATTR == <<"device_class", "icon", "unit_of_measurement">>

\* ------------------------------------------------------------------ slugify
UpperChars == <<"A", "B", "C", "D", "E", "F", "G", "H", "I", "J", "K", "L", "M",
                "N", "O", "P", "Q", "R", "S", "T", "U", "V", "W", "X", "Y", "Z">>
LowerChars == <<"a", "b", "c", "d", "e", "f", "g", "h", "i", "j", "k", "l", "m",
                "n", "o", "p", "q", "r", "s", "t", "u", "v", "w", "x", "y", "z">>
DigitChars == {"0", "1", "2", "3", "4", "5", "6", "7", "8", "9"}

Range(s) == {s[i] : i \in DOMAIN s}

\* str.lower on one character
LowerOf == [c \in Range(UpperChars) |->
              LowerChars[CHOOSE i \in DOMAIN UpperChars : UpperChars[i] = c]]
Lower(c) == IF c \in DOMAIN LowerOf THEN LowerOf[c] ELSE c

\* the characters slugify keeps: [-a-z0-9], after lower-casing
AllowedChars == Range(LowerChars) \cup DigitChars \cup {"-"}

\* slugify(text), from character i on, out being the slug so far: the text is
\* lower-cased, every run of characters outside [-a-z0-9] becomes one "-",
\* runs of "-" collapse to one, and no "-" leads
RECURSIVE SlugFrom(_, _, _)
SlugFrom(text, i, out) ==
    IF i > Len(text) THEN out
    ELSE LET l == Lower(text[i])
             c == IF l \in AllowedChars THEN l ELSE "-"
         IN  IF c = "-" /\ (out = <<>> \/ out[Len(out)] = "-")
             THEN SlugFrom(text, i + 1, out)
             ELSE SlugFrom(text, i + 1, Append(out, c))

\* ... and no "-" trails
slugify(text) ==
    LET out == SlugFrom(text, 1, <<>>)
    IN  IF out # <<>> /\ out[Len(out)] = "-" THEN SubSeq(out, 1, Len(out) - 1) ELSE out

\* ------------------------------------------------------------ topic formats
\* MQTT_BASE_TOPIC = f"ps2mqtt/{slugify(platform.node())}"
MQTT_BASE_TOPIC == T_ps2mqtt \o <<"/">> \o slugify(Hostname)
\* MQTT_PS2MQTT_STATUS = "{}/status"
MQTT_PS2MQTT_STATUS(base) == base \o <<"/">> \o T_status
\* MQTT_STATE_TOPIC = "{}/{}"
MQTT_STATE_TOPIC(base, key) == base \o <<"/">> \o key
\* HA_DISCOVERY_PREFIX = "{}/sensor/ps2mqtt_{}/{}/config"
HA_DISCOVERY_PREFIX(prefix, node, key) ==
    prefix \o <<"/">> \o T_sensor \o <<"/">> \o T_ps2mqtt \o <<"_">> \o node
           \o <<"/">> \o key \o <<"/">> \o T_config

\* ------------------------------------------------- decimal arithmetic, prec 2
\* getcontext().prec = 2
DecimalPrec == 2

Abs(n) == IF n < 0 THEN -n ELSE n
Sign(n) == IF n < 0 THEN -1 ELSE 1

RECURSIVE Pow10(_)
Pow10(k) == IF k <= 0 THEN 1 ELSE 10 * Pow10(k - 1)

RECURSIVE NumDigits(_)
NumDigits(n) == IF n < 10 THEN 1 ELSE 1 + NumDigits(n \div 10)

\* a decimal number is coeff * 10^exp; coefficients carry the sign
RECURSIVE StripZeros(_, _, _)
StripZeros(coeff, exp, ideal) ==
    IF exp < ideal /\ coeff # 0 /\ coeff % 10 = 0
    THEN StripZeros(coeff \div 10, exp + 1, ideal)
    ELSE [coeff |-> coeff, exp |-> exp]

\* Decimal._fix under ROUND_HALF_EVEN: keep at most DecimalPrec digits
DecimalFix(coeff, exp) ==
    IF NumDigits(coeff) <= DecimalPrec THEN [coeff |-> coeff, exp |-> exp]
    ELSE LET drop == NumDigits(coeff) - DecimalPrec
             unit == Pow10(drop)
             kept == coeff \div unit
             rest == coeff % unit
             up   == \/ 2 * rest > unit
                     \/ 2 * rest = unit /\ kept % 2 = 1
             c    == IF up THEN kept + 1 ELSE kept
         IN  IF NumDigits(c) > DecimalPrec
             THEN [coeff |-> c \div 10, exp |-> exp + drop + 1]
             ELSE [coeff |-> c, exp |-> exp + drop]

\* Decimal(a) / Decimal(b) for integers a and b # 0, as the decimal module
\* divides: a quotient of prec+1 or prec+2 digits with a sticky last digit,
\* then rounded to the context precision
DecimalDivide(a, b) ==
    IF a = 0 THEN [coeff |-> 0, exp |-> 0]
    ELSE LET shift == NumDigits(Abs(b)) - NumDigits(Abs(a)) + DecimalPrec + 1
             n     == IF shift >= 0 THEN Abs(a) * Pow10(shift) ELSE Abs(a)
             d     == IF shift >= 0 THEN Abs(b) ELSE Abs(b) * Pow10(-shift)
             q     == n \div d
             r     == n % d
             raw   == IF r # 0
                      THEN [coeff |-> IF q % 5 = 0 THEN q + 1 ELSE q, exp |-> -shift]
                      ELSE StripZeros(q, -shift, 0)
             fixed == DecimalFix(raw.coeff, raw.exp)
         IN  [coeff |-> Sign(a) * Sign(b) * fixed.coeff, exp |-> fixed.exp]

\* float(d): the value of the decimal, whatever its representation; written
\* as the pair <<c, e>> with c not divisible by 10 (and <<0, 0>> for zero)
RECURSIVE ToFloat(_)
ToFloat(d) ==
    IF d.coeff = 0 THEN <<0, 0>>
    ELSE IF d.coeff % 10 = 0 THEN ToFloat([coeff |-> d.coeff \div 10, exp |-> d.exp + 1])
    ELSE <<d.coeff, d.exp>>

\* --------------------------------------------------------------------- state
VARIABLES
    cfgFile,     \* the configuration file: [exists, data]
    host,        \* what psutil reports of the host: [has_api, temps, cpu, mem]
    net,         \* psutil.net_io_counters(), in units of 1000 bytes: [sent, recv]
    now,         \* the reading of time.time()
    mainpc,      \* position of the main thread in main()
    exc,         \* the exception that ended main ("none" while it runs)
    config,      \* the dict config of main
    properties,  \* the registry of main: [keys, props], keys in dict order
    userdata,    \* userdata of the client, less the registry: [ha_prefix, base_topic]
    will,        \* the last will registered on the client
    session,     \* the broker session
    loopRunning, \* the network thread of loop_start is running
    connects,    \* CONNACKs handled in this run
    ticksAtConnect, \* executions of status begun before the latest connect callback
    last,        \* the module-level dict last of rate
    queue,       \* the event queue of the scheduler s: times, earliest first
    statusArgs,  \* the arguments (period, base_topic) status runs with
    tick,        \* executions of status started in this run
    startedAt,   \* clock reading when the running execution of status began
    endedAt,     \* clock reading when the last execution of status re-armed
    log,         \* the publish calls of this run, in call order, of each caller:
                 \* [on_connect, status]
    rateCalls,   \* the calls of rate in the latest execution of status
    reported,    \* what rate returned last, for each key it has returned for
    genArgs,     \* arguments gen_ha_config is applied to on its own
    genResult,   \* and the payload it returned for them
    stepsBack    \* backward adjustments of the wall clock so far in this run

vars == <<cfgFile, host, net, now, mainpc, exc, config, properties,
          userdata, will, session, loopRunning, connects, ticksAtConnect, last, queue,
          statusArgs, tick, startedAt, endedAt, log, rateCalls, reported,
          genArgs, genResult,
          stepsBack>>

\* ------------------------------------------------------------ small helpers
EmptyMap == [k \in {} |-> 0]
Put(f, k, v) == [x \in DOMAIN f \cup {k} |-> IF x = k THEN v ELSE f[x]]
Restrict(f, S) == [x \in S |-> f[x]]

RECURSIVE SortedInsert(_, _)
SortedInsert(q, t) ==
    IF q = <<>> THEN <<t>>
    ELSE IF t < q[1] THEN <<t>> \o q
    ELSE <<q[1]>> \o SortedInsert(Tail(q), t)

\* rate with the assignment of line 47 left under the else branch: a first
\* call returns 0 and records nothing
rate_first_call_unrecorded(key, value, store, clock) ==
    IF key \in DOMAIN store
    THEN IF clock - store[key][1] = 0
         THEN [exc  |-> IF value - store[key][2] = 0 THEN "InvalidOperation"
                        ELSE "DivisionByZero",
               ret  |-> <<0, 0>>,
               last |-> store]
         ELSE [exc  |-> "none",
               ret  |-> ToFloat(DecimalDivide(value - store[key][2], clock - store[key][1])),
               last |-> Put(store, key, <<clock, value>>)]
    ELSE [exc |-> "none", ret |-> <<0, 0>>, last |-> store]

\* rate keeping one slot for all keys (last = {key: (now, value)})
rate_single_slot(key, value, store, clock) ==
    IF key \in DOMAIN store
    THEN IF clock - store[key][1] = 0
         THEN [exc  |-> IF value - store[key][2] = 0 THEN "InvalidOperation"
                        ELSE "DivisionByZero",
               ret  |-> <<0, 0>>,
               last |-> store]
         ELSE [exc  |-> "none",
               ret  |-> ToFloat(DecimalDivide(value - store[key][2], clock - store[key][1])),
               last |-> Put(EmptyMap, key, <<clock, value>>)]
    ELSE [exc |-> "none", ret |-> <<0, 0>>, last |-> Put(EmptyMap, key, <<clock, value>>)]

\* rate with the quotient taken by // on integers in place of Decimal
rate_integer_quotient(key, value, store, clock) ==
    IF key \in DOMAIN store
    THEN IF clock - store[key][1] = 0
         THEN [exc  |-> "ZeroDivisionError", ret |-> <<0, 0>>, last |-> store]
         ELSE [exc  |-> "none",
               ret  |-> ToFloat([coeff |-> (value - store[key][2]) \div (clock - store[key][1]),
                                 exp   |-> 0]),
               last |-> Put(store, key, <<clock, value>>)]
    ELSE [exc |-> "none", ret |-> <<0, 0>>, last |-> Put(store, key, <<clock, value>>)]

\* ------------------------------------------------------------ rate (37-49)
\* rate(key, value) run on the store `store` (the dict last) with time.time()
\* reading `clock`: the outcome as [exc, ret, last]. The store is written
\* (line 47) only when the division of line 46 did not raise.
rate(key, value, store, clock) ==
    IF key \in DOMAIN store
    THEN LET ltime  == store[key][1]
             lvalue == store[key][2]
         IN  IF clock - ltime = 0
             THEN [exc  |-> IF value - lvalue = 0 THEN "InvalidOperation"
                                                  ELSE "DivisionByZero",
                   ret  |-> <<0, 0>>,
                   last |-> store]
             ELSE [exc  |-> "none",
                   ret  |-> ToFloat(DecimalDivide(value - lvalue, clock - ltime)),
                   last |-> Put(store, key, <<clock, value>>)]
    ELSE [exc  |-> "none",
          ret  |-> ToFloat([coeff |-> 0, exp |-> 0]),
          last |-> Put(store, key, <<clock, value>>)]

\* what one call of rate was given, found in the store, and did; prior is
\* what rate returned for the key the time before
RateRecord(key, value, store, clock) ==
    LET r == rate(key, value, store, clock)
    IN  [key |-> key, value |-> value, time |-> clock,
         before |-> store,
         had |-> key \in DOMAIN store,
         prev |-> IF key \in DOMAIN store THEN store[key] ELSE <<0, 0>>,
         prior |-> IF key \in DOMAIN reported THEN reported[key] ELSE <<0, 0>>,
         exc |-> r.exc, ret |-> r.ret, last |-> r.last]

\* ------------------------------------------------- load_properties (52-103)
StaticKeys == <<K_cpu_percent, K_virtual_memory, K_uptime, K_bytes_sent,
                K_bytes_recv, K_upload, K_download>>

StaticProps ==
    (K_cpu_percent :> [unit_of_measurement |-> U_percent, icon |-> I_chip,
                       call |-> [fn |-> "cpu_percent"]])
 @@ (K_virtual_memory :> [unit_of_measurement |-> U_percent, icon |-> I_memory,
                          call |-> [fn |-> "virtual_memory"]])
 @@ (K_uptime :> [device_class |-> D_timestamp, call |-> [fn |-> "uptime"]])
 @@ (K_bytes_sent :> [unit_of_measurement |-> U_MiB, icon |-> I_upload,
                      call |-> [fn |-> "bytes_sent"]])
 @@ (K_bytes_recv :> [unit_of_measurement |-> U_MiB, icon |-> I_download,
                      call |-> [fn |-> "bytes_recv"]])
 @@ (K_upload :> [unit_of_measurement |-> U_kbps, icon |-> I_upload,
                  call |-> [fn |-> "upload"]])
 @@ (K_download :> [unit_of_measurement |-> U_kbps, icon |-> I_download,
                    call |-> [fn |-> "download"]])

\* the keys of psutil.sensors_temperatures(), in dict order
SensorGroups(h) == [i \in DOMAIN h.temps |-> h.temps[i][1]]

RECURSIVE AppendNew(_, _)
AppendNew(keys, more) ==
    IF more = <<>> THEN keys
    ELSE AppendNew(IF more[1] \in Range(keys) THEN keys ELSE Append(keys, more[1]),
                   Tail(more))

\* The lambda of line 100 reads the variable temp_sensor when it is called,
\* after the loop of line 96 has ended: every temperature entry samples the
\* last group.
load_properties(h) ==
    IF h.has_api /\ h.temps # <<>>
    THEN LET groups == SensorGroups(h)
             bound  == groups[Len(groups)]
         IN  [keys  |-> AppendNew(StaticKeys, groups),
              props |-> [g \in Range(groups) |->
                            [unit_of_measurement |-> U_celsius,
                             device_class |-> D_temperature,
                             call |-> [fn |-> "temp", sensor |-> bound]]]
                        @@ StaticProps]
    ELSE [keys |-> StaticKeys, props |-> StaticProps]

\* outcomes of a sampling function: it returned v, it raised e, it returned
\* what its call r of rate returned (or raised what that raised)
Returned(v, store) == [exc |-> "none", val |-> v, last |-> store, rates |-> <<>>]
Raised(e, store) == [exc |-> e, val |-> 0, last |-> store, rates |-> <<>>]
Rated(r) == [exc |-> r.exc, val |-> r.ret, last |-> r.last, rates |-> <<r>>]

\* properties[p]["call"]() run on the store `store`, psutil.net_io_counters()
\* reading io: the outcome as [exc, val, last, rates], rates being the calls
\* of rate it made
call(c, store, io) ==
    CASE c.fn = "cpu_percent"    -> Returned(host.cpu, store)
      [] c.fn = "virtual_memory" -> Returned(host.mem, store)
      [] c.fn = "uptime"         -> Returned(BootIso, store)
      [] c.fn = "bytes_sent"     -> Returned(io.sent \div 1000, store)
      [] c.fn = "bytes_recv"     -> Returned(io.recv \div 1000, store)
      [] c.fn = "upload"         -> Rated(RateRecord(K_upload, io.sent, store, now))
      [] c.fn = "download"       -> Rated(RateRecord(K_download, io.recv, store, now))
      [] c.fn = "temp"           ->
            IF ~ \E i \in DOMAIN host.temps : host.temps[i][1] = c.sensor
            THEN Raised("KeyError", store)
            ELSE LET i == CHOOSE j \in DOMAIN host.temps : host.temps[j][1] = c.sensor
                 IN  IF host.temps[i][2] = <<>>
                     THEN Raised("IndexError", store)
                     ELSE Returned(host.temps[i][2][1], store)

\* --------------------------------------------------- gen_ha_config (106-128)
RECURSIVE OptionalMembers(_, _)
OptionalMembers(attrs, meta) ==
    IF attrs = <<>> THEN <<>>
    ELSE (IF attrs[1] \in DOMAIN meta THEN << <<attrs[1], meta[attrs[1]]>> >> ELSE <<>>)
         \o OptionalMembers(Tail(attrs), meta)

\* gen_ha_config advertising the state topic under the slug of the key
gen_ha_config_slug_topic(sensor, props, base_topic) ==
    << <<"name", sensor>>,
       <<"unique_id", slugify(Hostname \o <<" ">> \o sensor)>>,
       <<"object_id", slugify(Hostname \o <<" ">> \o sensor)>>,
       <<"state_topic", MQTT_STATE_TOPIC(base_topic, slugify(sensor))>>,
       <<"availability_topic", MQTT_PS2MQTT_STATUS(base_topic)>>,
       <<"payload_available", MQTT_AVAILABLE>>,
       <<"payload_not_available", MQTT_NOT_AVAILABLE>>,
       <<"device", << <<"identifiers", Hostname \o <<"_">> \o T_ps2mqtt>>,
                      <<"name", Hostname>>,
                      <<"sw_version", PlatformString>>,
                      <<"model", SystemName>>,
                      <<"manufacturer", T_ps2mqtt \o <<" ">> \o Version>> >> >> >>
    \o OptionalMembers(OPTIONAL_ATTR, props[sensor])

\* gen_ha_config with every optional attribute copied by properties.get:
\* an absent one appears as null
NullableMembers(attrs, meta) ==
    [i \in DOMAIN attrs |->
        <<attrs[i], IF attrs[i] \in DOMAIN meta THEN meta[attrs[i]]
                    ELSE <<"n", "u", "l", "l">> >>]

gen_ha_config_nulls(sensor, props, base_topic) ==
    << <<"name", sensor>>,
       <<"unique_id", slugify(Hostname \o <<" ">> \o sensor)>>,
       <<"object_id", slugify(Hostname \o <<" ">> \o sensor)>>,
       <<"state_topic", MQTT_STATE_TOPIC(base_topic, sensor)>>,
       <<"availability_topic", MQTT_PS2MQTT_STATUS(base_topic)>>,
       <<"payload_available", MQTT_AVAILABLE>>,
       <<"payload_not_available", MQTT_NOT_AVAILABLE>>,
       <<"device", << <<"identifiers", Hostname \o <<"_">> \o T_ps2mqtt>>,
                      <<"name", Hostname>>,
                      <<"sw_version", PlatformString>>,
                      <<"model", SystemName>>,
                      <<"manufacturer", T_ps2mqtt \o <<" ">> \o Version>> >> >> >>
    \o NullableMembers(OPTIONAL_ATTR, props[sensor])

\* gen_ha_config that adds the entry of the rate store to the record of a
\* rate metric
gen_ha_config_with_history(sensor, props, base_topic) ==
    << <<"name", sensor>>,
       <<"unique_id", slugify(Hostname \o <<" ">> \o sensor)>>,
       <<"object_id", slugify(Hostname \o <<" ">> \o sensor)>>,
       <<"state_topic", MQTT_STATE_TOPIC(base_topic, sensor)>>,
       <<"availability_topic", MQTT_PS2MQTT_STATUS(base_topic)>>,
       <<"payload_available", MQTT_AVAILABLE>>,
       <<"payload_not_available", MQTT_NOT_AVAILABLE>>,
       <<"device", << <<"identifiers", Hostname \o <<"_">> \o T_ps2mqtt>>,
                      <<"name", Hostname>>,
                      <<"sw_version", PlatformString>>,
                      <<"model", SystemName>>,
                      <<"manufacturer", T_ps2mqtt \o <<" ">> \o Version>> >> >> >>
    \o OptionalMembers(OPTIONAL_ATTR, props[sensor])
    \o (IF sensor \in DOMAIN last THEN << <<"last", last[sensor]>> >> ELSE <<>>)

\* The payload is the JSON object json.dumps writes: its members, in the
\* order the dict received them.
gen_ha_config(sensor, props, base_topic) ==
    << <<"name", sensor>>,
       <<"unique_id", slugify(Hostname \o <<" ">> \o sensor)>>,
       <<"object_id", slugify(Hostname \o <<" ">> \o sensor)>>,
       <<"state_topic", MQTT_STATE_TOPIC(base_topic, sensor)>>,
       <<"availability_topic", MQTT_PS2MQTT_STATUS(base_topic)>>,
       <<"payload_available", MQTT_AVAILABLE>>,
       <<"payload_not_available", MQTT_NOT_AVAILABLE>>,
       <<"device", << <<"identifiers", Hostname \o <<"_">> \o T_ps2mqtt>>,
                      <<"name", Hostname>>,
                      <<"sw_version", PlatformString>>,
                      <<"model", SystemName>>,
                      <<"manufacturer", T_ps2mqtt \o <<" ">> \o Version>> >> >> >>
    \o OptionalMembers(OPTIONAL_ATTR, props[sensor])

\* on_connect with the discovery loop ahead of the availability message
on_connect_discovery_first(ud, result) ==
    [i \in DOMAIN ud[1].keys |->
        [topic   |-> HA_DISCOVERY_PREFIX(ud[2], slugify(Hostname), ud[1].keys[i]),
         payload |-> gen_ha_config(ud[1].keys[i], ud[1].props, ud[3]),
         retain  |-> TRUE]]
    \o << [topic |-> MQTT_PS2MQTT_STATUS(ud[3]), payload |-> MQTT_AVAILABLE,
           retain |-> TRUE] >>

\* ------------------------------------------------------ on_connect (138-150)
\* the publish calls of one invocation, in call order
on_connect(ud, result) ==
    LET props     == ud[1]
        ha_prefix == ud[2]
        base      == ud[3]
    IN  << [topic |-> MQTT_PS2MQTT_STATUS(base), payload |-> MQTT_AVAILABLE,
            retain |-> TRUE] >>
        \o [i \in DOMAIN props.keys |->
              [topic   |-> HA_DISCOVERY_PREFIX(ha_prefix, slugify(Hostname), props.keys[i]),
               payload |-> gen_ha_config(props.keys[i], props.props, base),
               retain  |-> TRUE]]

\* ------------------------------------------------------------- main (153-224)
\* the parsed arguments, all at their argparse defaults (155-169)
Args == [period |-> 60, mqtt_server |-> T_localhost, mqtt_port |-> 1883,
         mqtt_base_topic |-> MQTT_BASE_TOPIC, ha_discover_prefix |-> T_homeassistant]

\* the dict config before the file is read (171-176)
ArgsConfig ==
    Restrict(Args, {"mqtt_server", "mqtt_port", "mqtt_base_topic", "ha_discover_prefix"})

\* the keys main reads before the client exists, in the order it reads them (185-192)
ClientKeys == <<"mqtt_server", "mqtt_port", "ha_discover_prefix", "mqtt_base_topic">>

\* configuration files the daemon may be started with: none, a complete one
\* (with a period of one clock unit, so that several ticks fit the explored
\* clock), and that one with one key removed
UserConfig(p) == [Args EXCEPT !.period = p]
InitFiles ==
    {[exists |-> FALSE, data |-> EmptyMap]}
    \cup {[exists |-> TRUE, data |-> UserConfig(1)]}
    \cup {[exists |-> TRUE, data |-> Restrict(UserConfig(1), DOMAIN Args \ {k})] :
            k \in DOMAIN Args}

\* hosts: no temperature API, two sensor groups
Hosts ==
    {[has_api |-> FALSE, temps |-> <<>>, cpu |-> 7, mem |-> 42],
     [has_api |-> TRUE, temps |-> << <<G_acpitz, <<40>> >>, <<G_coretemp, <<55, 56>> >> >>,
      cpu |-> 7, mem |-> 42]}

\* what the host sent and received between two executions of status, in units
\* of 1000 bytes
TrafficDeltas == {<<0, 0>>, <<2, 125>>}

NoWill == [set |-> FALSE]
NoGenArgs == [sensor |-> <<>>, props |-> EmptyMap, base_topic |-> <<>>]
NoLog == [on_connect |-> <<>>, status |-> <<>>]
NoUserdata == [ha_prefix |-> <<>>, base_topic |-> <<>>]
NoProperties == [keys |-> <<>>, props |-> EmptyMap]

ProcessInit ==
    /\ mainpc = "start"
    /\ exc = "none"
    /\ config = ArgsConfig
    /\ properties = NoProperties
    /\ userdata = NoUserdata
    /\ will = NoWill
    /\ session = "none"
    /\ loopRunning = FALSE
    /\ connects = 0
    /\ ticksAtConnect = 0
    /\ last = EmptyMap
    /\ queue = <<>>
    /\ statusArgs = [period |-> 0, base_topic |-> <<>>]
    /\ tick = 0
    /\ startedAt = 0
    /\ endedAt = 0
    /\ log = NoLog
    /\ rateCalls = <<>>
    /\ reported = EmptyMap
    /\ stepsBack = 0

Init ==
    /\ cfgFile \in InitFiles
    /\ host \in Hosts
    /\ net = [sent |-> 10, recv |-> 20]
    /\ now = 1
    /\ genArgs = NoGenArgs
    /\ genResult = <<>>
    /\ ProcessInit

envVars == <<host, net, now, stepsBack>>
schedVars == <<last, queue, statusArgs, tick, startedAt, endedAt, rateCalls, reported>>
genVars == <<genArgs, genResult>>
netVars == <<connects, ticksAtConnect, log>>

\* main leaves its try block with exception e; the finally clause writes cfg
\* to the file (216-224) and the process ends, its network thread with it
Exit(e, cfg) ==
    /\ mainpc' = "exited"
    /\ exc' = e
    /\ config' = cfg
    /\ cfgFile' = [exists |-> TRUE, data |-> cfg]
    /\ loopRunning' = FALSE
    /\ session' = IF session = "none" THEN "none" ELSE "Disconnected"

\* except KeyError (212-215): the missing key is filled in from the arguments
Repaired(cfg, k) == Put(cfg, k, Args[k])

\* lines 178-183
MainLoad ==
    /\ mainpc = "start"
    /\ IF ~ cfgFile.exists
       THEN /\ Exit("FileNotFoundError", config)
            /\ UNCHANGED properties
       ELSE /\ config' = cfgFile.data
            /\ properties' = load_properties(host)
            /\ mainpc' = "loaded"
            /\ UNCHANGED <<exc, cfgFile, loopRunning, session>>
    /\ UNCHANGED <<genVars, envVars, schedVars, netVars, userdata, will>>

\* lines 185-193
MainClient ==
    /\ mainpc = "loaded"
    /\ IF \E i \in DOMAIN ClientKeys : ClientKeys[i] \notin DOMAIN config
       THEN LET i == CHOOSE j \in DOMAIN ClientKeys :
                        /\ ClientKeys[j] \notin DOMAIN config
                        /\ \A h \in 1..(j - 1) : ClientKeys[h] \in DOMAIN config
            IN  /\ Exit("KeyError", Repaired(config, ClientKeys[i]))
                /\ UNCHANGED userdata
       ELSE /\ userdata' = [ha_prefix |-> config.ha_discover_prefix,
                          base_topic |-> config.mqtt_base_topic]
            /\ session' = "Disconnected"
            /\ mainpc' = "client"
            /\ UNCHANGED <<exc, config, cfgFile, loopRunning>>
    /\ UNCHANGED <<genVars, envVars, schedVars, netVars, properties, will>>

\* main without the will_set call of lines 194-198
MainWillSet_skipped ==
    /\ mainpc = "client"
    /\ mainpc' = "will"
    /\ UNCHANGED <<genVars, envVars, schedVars, netVars, properties, userdata,
                   exc, config, cfgFile, loopRunning, session, will>>

\* lines 194-198
MainWillSet ==
    /\ mainpc = "client"
    /\ will' = [set |-> TRUE, topic |-> MQTT_PS2MQTT_STATUS(config.mqtt_base_topic),
                payload |-> MQTT_NOT_AVAILABLE, retain |-> TRUE]
    /\ mainpc' = "will"
    /\ UNCHANGED <<genVars, envVars, schedVars, netVars, properties, userdata,
                   exc, config, cfgFile, loopRunning, session>>

\* lines 199-201: connect returns once the CONNECT packet is sent, or raises
\* when the broker cannot be reached
MainConnect ==
    /\ mainpc = "will"
    /\ \/ /\ session' = "Connecting"
          /\ mainpc' = "connect"
          /\ UNCHANGED <<exc, config, cfgFile, loopRunning>>
       \/ Exit("OSError", config)
    /\ UNCHANGED <<genVars, envVars, schedVars, netVars, properties, userdata, will>>

\* line 203
MainLoopStart ==
    /\ mainpc = "connect"
    /\ loopRunning' = TRUE
    /\ mainpc' = "loop"
    /\ UNCHANGED <<genVars, envVars, schedVars, netVars, properties, userdata, will,
                   exc, config, cfgFile, session>>

\* lines 205-206 are MainFirstStatus, defined after status

\* ---------------------------------------------------------- status (131-135)
\* a publish call as the log keeps it: the message, and the number n of the
\* execution of status, or of the connect callback, that published it
Published(m, n) ==
    [topic |-> m.topic, payload |-> m.payload, retain |-> m.retain, n |-> n]

\* status leaving out a rate that is 0 (if value: publish)
ZeroRate(r) == r.rates # <<>> /\ r.rates[1].ret = <<0, 0>>

StatusIter_skipping_zero_rate(props, base_topic, io, i, acc) ==
    [exc   |-> call(props.props[props.keys[i]].call, acc.last, io).exc,
     last  |-> call(props.props[props.keys[i]].call, acc.last, io).last,
     pubs  |-> IF \/ call(props.props[props.keys[i]].call, acc.last, io).exc # "none"
                  \/ ZeroRate(call(props.props[props.keys[i]].call, acc.last, io))
               THEN acc.pubs
               ELSE Append(acc.pubs,
                           [topic   |-> MQTT_STATE_TOPIC(base_topic, props.keys[i]),
                            payload |-> call(props.props[props.keys[i]].call, acc.last, io).val,
                            retain  |-> FALSE]),
     rates |-> acc.rates \o call(props.props[props.keys[i]].call, acc.last, io).rates]

\* line 134, the iteration for entry i of properties.keys(): the entry is
\* sampled and the value published. acc is the outcome of the iterations
\* before, [exc, last, pubs, rates].
StatusIter(props, base_topic, io, i, acc) ==
    LET p == props.keys[i]
        r == call(props.props[p].call, acc.last, io)
    IN  [exc   |-> r.exc,
         last  |-> r.last,
         pubs  |-> IF r.exc # "none" THEN acc.pubs
                   ELSE Append(acc.pubs, [topic |-> MQTT_STATE_TOPIC(base_topic, p),
                                          payload |-> r.val, retain |-> FALSE]),
         rates |-> acc.rates \o r.rates]

\* lines 133-134: the loop over properties.keys() from entry i on; a sampler
\* that raises ends it with its exception
RECURSIVE StatusFrom(_, _, _, _, _)
StatusFrom(props, base_topic, io, i, acc) ==
    IF i > Len(props.keys) \/ acc.exc # "none" THEN acc
    ELSE StatusFrom(props, base_topic, io, i + 1, StatusIter(props, base_topic, io, i, acc))

\* what rate returned last for each key, after the calls rs
RECURSIVE Reported(_, _)
Reported(rep, rs) ==
    IF rs = <<>> THEN rep
    ELSE Reported(IF rs[1].exc = "none" THEN Put(rep, rs[1].key, rs[1].ret) ELSE rep,
                  Tail(rs))

StatusLoop(props, base_topic, store, io) ==
    StatusFrom(props, base_topic, io, 1,
               [exc |-> "none", last |-> store, pubs |-> <<>>, rates |-> <<>>])

\* status(mqttc, properties, s, period, base_topic), s being the events the
\* scheduler holds and io the counters psutil reports during the execution:
\* the loop, then line 135, s.enter(period, 1, status, ...). An exception
\* leaves status before line 135 and, caught nowhere, ends main.
status(props, s, period, base_topic, io) ==
    LET done == StatusLoop(props, base_topic, last, io)
    IN  /\ last' = done.last
        /\ rateCalls' = done.rates
        /\ reported' = Reported(reported, done.rates)
        /\ log' = [log EXCEPT !.status =
                      @ \o [i \in DOMAIN done.pubs |-> Published(done.pubs[i], tick + 1)]]
        /\ tick' = tick + 1
        /\ IF done.exc # "none"
           THEN /\ Exit(done.exc, config)
                /\ UNCHANGED <<queue, endedAt>>
           ELSE /\ queue' = SortedInsert(s, now + period)
                /\ endedAt' = now
                /\ mainpc' = "run"
                /\ UNCHANGED <<exc, config, cfgFile, loopRunning, session>>

\* lines 205-206: the scheduler is created, the arguments of status are read
\* from config, and status is called directly
MainFirstStatus ==
    /\ mainpc = "loop"
    /\ IF "period" \notin DOMAIN config
       THEN /\ Exit("KeyError", Repaired(config, "period"))
            /\ UNCHANGED <<statusArgs, startedAt>>
       ELSE /\ statusArgs' = [period |-> config.period,
                              base_topic |-> config.mqtt_base_topic]
            /\ startedAt' = now
            /\ mainpc' = "status"
            /\ UNCHANGED <<exc, config, cfgFile, loopRunning, session>>
    /\ UNCHANGED <<genVars, envVars, netVars, properties, userdata, will, last, queue, tick,
                   endedAt, rateCalls, reported>>

\* line 208, s.run(): the scheduler reads the clock and, once the time of the
\* earliest event has come, takes it off the queue and calls its action,
\* status; until then it sleeps
SchedRun ==
    /\ mainpc = "run"
    /\ queue # <<>>
    /\ queue[1] <= now
    /\ tick < MaxTicks
    /\ queue' = Tail(queue)
    /\ startedAt' = now
    /\ mainpc' = "status"
    /\ UNCHANGED <<genVars, envVars, netVars, properties, userdata, will, exc, config, cfgFile,
                   loopRunning, session, last, statusArgs, tick, endedAt, rateCalls,
                   reported>>

\* an execution of status, called by main or by the scheduler
Status ==
    /\ mainpc = "status"
    /\ \E d \in TrafficDeltas :
          LET io == [sent |-> net.sent + d[1], recv |-> net.recv + d[2]]
          IN  /\ net' = io
              /\ status(properties, queue, statusArgs.period, statusArgs.base_topic, io)
    /\ UNCHANGED <<genVars, host, now, stepsBack, connects, ticksAtConnect, properties,
                   userdata, will,
                   statusArgs, startedAt>>

\* --------------------------------------------------------- the network thread
\* the publish calls of the connect callback the loop thread makes next
Callback(result) ==
    LET msgs == on_connect(<<properties, userdata.ha_prefix, userdata.base_topic>>, result)
    IN  [i \in DOMAIN msgs |-> Published(msgs[i], connects + 1)]

\* a connect callback that starts the rates afresh (last.clear() in on_connect)
NetConnack_clearing_rates ==
    /\ loopRunning
    /\ session = "Connecting"
    /\ connects < MaxConnects
    /\ \E result \in {0, 5} :
          /\ session' = IF result = 0 THEN "Connected" ELSE "Disconnected"
          /\ log' = [log EXCEPT !.on_connect = @ \o Callback(result)]
    /\ connects' = connects + 1
    /\ ticksAtConnect' = tick
    /\ last' = EmptyMap
    /\ UNCHANGED <<genVars, envVars, queue, statusArgs, tick, startedAt, endedAt, rateCalls,
                   reported, properties, userdata, will, exc, config,
                   cfgFile, loopRunning, mainpc>>

\* the loop thread receives a CONNACK and calls on_connect with its result
\* (0: accepted, 5: refused)
NetConnack ==
    /\ loopRunning
    /\ session = "Connecting"
    /\ connects < MaxConnects
    /\ \E result \in {0, 5} :
          /\ session' = IF result = 0 THEN "Connected" ELSE "Disconnected"
          /\ log' = [log EXCEPT !.on_connect = @ \o Callback(result)]
    /\ connects' = connects + 1
    /\ ticksAtConnect' = tick
    /\ UNCHANGED <<genVars, envVars, schedVars, properties, userdata, will, exc, config,
                   cfgFile, loopRunning, mainpc>>

\* the connection is lost
NetLost ==
    /\ loopRunning
    /\ session = "Connected"
    /\ session' = "Disconnected"
    /\ UNCHANGED <<genVars, envVars, schedVars, netVars, properties, userdata, will, exc,
                   config, cfgFile, loopRunning, mainpc>>

\* the loop thread reconnects on its own
NetReconnect ==
    /\ loopRunning
    /\ session = "Disconnected"
    /\ connects < MaxConnects
    /\ session' = "Connecting"
    /\ UNCHANGED <<genVars, envVars, schedVars, netVars, properties, userdata, will, exc,
                   config, cfgFile, loopRunning, mainpc>>

\* ------------------------------------------------------------ the environment
procVars == <<cfgFile, mainpc, exc, config, properties, userdata, will,
              session, loopRunning>>

\* time passes while the scheduler sleeps
ClockAdvance ==
    /\ mainpc = "run"
    /\ now < MaxClock
    /\ now' = now + 1
    /\ UNCHANGED <<genVars, procVars, schedVars, netVars, host, net, stepsBack>>

\* time.time() is the wall clock: it is set back (NTP step, manual change) by
\* some amount. Set back while the scheduler sleeps, it only lengthens the
\* sleep; the step explored is the one between the scheduler's reading of the
\* clock (SchedRun, MainFirstStatus) and the readings of rate in status.
ClockStepBack ==
    /\ mainpc = "status"
    /\ stepsBack < MaxStepBack
    /\ \E t \in 0..(now - 1) : now' = t
    /\ stepsBack' = stepsBack + 1
    /\ UNCHANGED <<genVars, procVars, schedVars, netVars, host, net>>

\* The daemon is started again after it ended. Only differences of clock
\* readings and of counter values enter the program, so the new run is taken
\* from the same readings as the first.
Restart ==
    /\ mainpc = "exited"
    /\ now' = 1
    /\ net' = [sent |-> 10, recv |-> 20]
    /\ mainpc' = "start"
    /\ exc' = "none"
    /\ config' = ArgsConfig
    /\ properties' = NoProperties
    /\ userdata' = NoUserdata
    /\ will' = NoWill
    /\ session' = "none"
    /\ loopRunning' = FALSE
    /\ connects' = 0
    /\ ticksAtConnect' = 0
    /\ last' = EmptyMap
    /\ queue' = <<>>
    /\ statusArgs' = [period |-> 0, base_topic |-> <<>>]
    /\ tick' = 0
    /\ startedAt' = 0
    /\ endedAt' = 0
    /\ log' = NoLog
    /\ rateCalls' = <<>>
    /\ reported' = EmptyMap
    /\ stepsBack' = 0
    /\ UNCHANGED <<genVars, cfgFile, host>>

Next ==
    \/ MainLoad \/ MainClient \/ MainWillSet \/ MainConnect \/ MainLoopStart
    \/ MainFirstStatus \/ SchedRun \/ Status
    \/ NetConnack \/ NetLost \/ NetReconnect
    \/ ClockAdvance \/ ClockStepBack \/ Restart

Spec == Init /\ [][Next]_vars

\* ------------------------------------------- gen_ha_config applied on its own
\* registries of one entry: any set of optional attributes, each with one of
\* two values, next to the sampling function
GenKeys == {K_upload, G_acpitz}
GenBaseTopics == {MQTT_BASE_TOPIC, <<"h", "/", "x">>}
GenMetas ==
    UNION {{f @@ [call |-> [fn |-> "cpu_percent"]] : f \in [S -> {U_percent, D_timestamp}]} :
             S \in SUBSET Range(OPTIONAL_ATTR)}
GenInputs ==
    {[sensor |-> k, props |-> (k :> m), base_topic |-> b] :
        k \in GenKeys, m \in GenMetas, b \in GenBaseTopics}

GenInit ==
    /\ cfgFile = [exists |-> FALSE, data |-> EmptyMap]
    /\ host = [has_api |-> FALSE, temps |-> <<>>, cpu |-> 7, mem |-> 42]
    /\ net = [sent |-> 10, recv |-> 20]
    /\ now = 1
    /\ genArgs \in GenInputs
    /\ genResult = <<>>
    /\ ProcessInit

GenCall ==
    /\ genResult = <<>>
    /\ genResult' = gen_ha_config(genArgs.sensor, genArgs.props, genArgs.base_topic)
    /\ UNCHANGED <<procVars, envVars, schedVars, netVars, genArgs>>

SpecGen == GenInit /\ [][GenCall]_vars

\* ------------------------------------------------------------------- claims
\* what the log keeps of a publish call, less the bookkeeping
Msg(e) == [topic |-> e.topic, payload |-> e.payload, retain |-> e.retain]

NumKeys == Len(properties.keys)
StatusTopicText(base) == base \o <<"/", "s", "t", "a", "t", "u", "s">>
DiscoveryTopicText(prefix, key) ==
    prefix \o <<"/", "s", "e", "n", "s", "o", "r", "/", "p", "s", "2", "m", "q", "t", "t",
                "_", "m", "y", "-", "n", "a", "s", "/">>
           \o key \o <<"/", "c", "o", "n", "f", "i", "g">>

\* C1: every connect callback publishes, in this order, one retained "online"
\* on <base_topic>/status and then one retained discovery record per registry
\* key, on <discovery_prefix>/sensor/ps2mqtt_<slug(hostname)>/<key>/config,
\* and nothing else.
C1_ConnectPublishesOnlineThenDiscovery ==
    /\ Len(log.on_connect) = connects * (NumKeys + 1)
    /\ \A c \in 1..connects :
          LET o == (c - 1) * (NumKeys + 1)
          IN  /\ log.on_connect[o + 1] =
                    [topic |-> StatusTopicText(userdata.base_topic),
                     payload |-> <<"o", "n", "l", "i", "n", "e">>,
                     retain |-> TRUE, n |-> c]
              /\ \A i \in 1..NumKeys :
                    LET e == log.on_connect[o + 1 + i]
                    IN  /\ e.topic = DiscoveryTopicText(userdata.ha_prefix, properties.keys[i])
                        /\ e.retain = TRUE
                        /\ e.n = c
                        /\ e.payload[1] = <<"name", properties.keys[i]>>

C1_Witness ==
    /\ connects = 2
    /\ NumKeys = 9
    /\ Len(log.on_connect) = 20

\* C2: whenever the session is Connecting or Connected, the last will
\* (<base_topic>/status, "offline", retained) is set on the client.
C2_WillSetBeforeConnect ==
    session \in {"Connecting", "Connected"} =>
        will = [set |-> TRUE, topic |-> StatusTopicText(config.mqtt_base_topic),
                payload |-> <<"o", "f", "f", "l", "i", "n", "e">>, retain |-> TRUE]

C2_Witness == session = "Connected" /\ will.set

\* C3: each execution of status publishes exactly one message per registry
\* entry k, on <base_topic>/<k>, without the retain flag.
C3_EveryExecutionPublishesEveryEntry ==
    /\ Len(log.status) = tick * NumKeys
    /\ \A e \in 1..tick : \A i \in 1..NumKeys :
          LET j == (e - 1) * NumKeys + i
          IN  /\ j <= Len(log.status)
              /\ log.status[j].topic = statusArgs.base_topic \o <<"/">> \o properties.keys[i]
              /\ log.status[j].retain = FALSE
              /\ log.status[j].n = e

\* the keys whose sampling function raised in the latest execution of status
RaisedKeys == {rateCalls[i].key : i \in {j \in DOMAIN rateCalls : rateCalls[j].exc # "none"}}

\* C4: when the sampling function of one entry raises during a tick, the
\* other entries are still published in that tick and the loop goes on: no
\* sampling failure ends it.
C4_SamplingFailureIsolated ==
    RaisedKeys # {} =>
        /\ mainpc # "exited"
        /\ \A i \in 1..NumKeys :
              properties.keys[i] \notin RaisedKeys =>
                  \E j \in DOMAIN log.status :
                      /\ log.status[j].n = tick
                      /\ log.status[j].topic =
                            statusArgs.base_topic \o <<"/">> \o properties.keys[i]

\* at most one execution of status is pending or running
C5_AtMostOnePendingOrRunning ==
    Len(queue) + (IF mainpc = "status" THEN 1 ELSE 0) <= 1

\* an execution the scheduler dispatched began no earlier than the end of the
\* execution before plus the period
C5_Spacing ==
    (mainpc = "status" /\ tick >= 1) => startedAt >= endedAt + statusArgs.period

\* C5: each execution of status re-arms itself exactly once, at its end, for
\* (time at re-arm + period); at most one execution is pending or running,
\* and tick n+1 starts no earlier than the end of tick n plus the period.
C5_RearmsOnceAfterEachExecution ==
    /\ (tick >= 1 /\ mainpc # "status") => queue = <<endedAt + statusArgs.period>>
    /\ C5_AtMostOnePendingOrRunning
    /\ C5_Spacing

\* C6: every connect callback publishes the messages the first one published,
\* whatever ticks ran and whatever the rate store holds in between.
C6_ReconnectRepublishesTheSame ==
    /\ Len(log.on_connect) = connects * (NumKeys + 1)
    /\ \A c \in 1..connects : \A i \in 1..(NumKeys + 1) :
          Msg(log.on_connect[(c - 1) * (NumKeys + 1) + i]) = Msg(log.on_connect[i])

C6_Witness ==
    /\ connects = 2
    /\ ticksAtConnect >= 1
    /\ DOMAIN last # {}
    /\ Len(log.on_connect) = 2 * (NumKeys + 1)

\* C7: the first call of rate for a key returns 0, does not raise, and leaves
\* (now, value) in the store for the key.
C7_FirstCallReturnsZero ==
    \A i \in DOMAIN rateCalls :
        LET r == rateCalls[i]
        IN  ~ r.had =>
                /\ r.exc = "none"
                /\ r.ret = <<0, 0>>
                /\ r.key \in DOMAIN last
                /\ last[r.key] = <<r.time, r.value>>

C7_Witness ==
    \E i \in DOMAIN rateCalls : ~ rateCalls[i].had /\ rateCalls[i].key = K_upload

\* C8: a call of rate that finds the clock at or before the stored time does
\* not raise and returns a fallback, 0 or the rate returned before.
C8_NoElapsedTimeFallsBack ==
    \A i \in DOMAIN rateCalls :
        LET r == rateCalls[i]
        IN  (r.had /\ r.time <= r.prev[1]) =>
                /\ r.exc = "none"
                /\ r.ret \in {<<0, 0>>, r.prior}

\* num / den (den > 0) rounded to two significant digits, ties to even, by
\* comparison of fractions: the decade x of the quotient is the one with
\* 10 <= |num| / (den * 10^x) < 100
ScaledNum(num, x) == Abs(num) * Pow10(-x)
ScaledDen(den, x) == den * Pow10(x)
Decade(num, den) ==
    CHOOSE y \in -6..6 : /\ 10 * ScaledDen(den, y) <= ScaledNum(num, y)
                         /\ ScaledNum(num, y) < 100 * ScaledDen(den, y)
HalfEven(p, q) ==
    IF 2 * (p % q) > q \/ (2 * (p % q) = q /\ (p \div q) % 2 = 1)
    THEN (p \div q) + 1
    ELSE p \div q
Rounded2Sig(num, den) ==
    IF num = 0 THEN <<0, 0>>
    ELSE ToFloat([coeff |-> Sign(num) * HalfEven(ScaledNum(num, Decade(num, den)),
                                                 ScaledDen(den, Decade(num, den))),
                  exp |-> Decade(num, den)])

\* C9: a call of rate at t2 with value v2, the call before for the key having
\* stored (t1, v1) with t1 < t2, returns (v2 - v1) / (t2 - t1) rounded to 2
\* significant digits and leaves (t2, v2) in the store.
C9_RateIsRoundedQuotient ==
    \A i \in DOMAIN rateCalls :
        LET r == rateCalls[i]
        IN  (r.had /\ r.prev[1] < r.time) =>
                /\ r.exc = "none"
                /\ r.ret = Rounded2Sig(r.value - r.prev[2], r.time - r.prev[1])
                /\ last[r.key] = <<r.time, r.value>>

C9_Witness ==
    \E i \in DOMAIN rateCalls :
        /\ rateCalls[i].had
        /\ rateCalls[i].prev[1] < rateCalls[i].time
        /\ rateCalls[i].value - rateCalls[i].prev[2] = 125
        /\ rateCalls[i].ret = <<12, 1>>

MandatoryMembers ==
    {"name", "unique_id", "object_id", "state_topic", "availability_topic",
     "payload_available", "payload_not_available", "device"}
MemberNames(payload) == {payload[i][1] : i \in DOMAIN payload}
MemberValue(payload, a) == payload[CHOOSE i \in DOMAIN payload : payload[i][1] = a][2]

\* C10: the payload of gen_ha_config holds an optional key (device_class,
\* icon, unit_of_measurement) exactly when the entry's metadata holds it, with
\* the same value; beyond those it holds the mandatory members and nothing
\* else, so never the sampling function.
C10_OptionalMembersIffPresent ==
    genResult # <<>> =>
        LET meta == genArgs.props[genArgs.sensor]
            opt  == {"device_class", "icon", "unit_of_measurement"}
        IN  /\ \A a \in opt : a \in MemberNames(genResult) <=> a \in DOMAIN meta
            /\ \A a \in opt \cap DOMAIN meta : MemberValue(genResult, a) = meta[a]
            /\ MemberNames(genResult) = MandatoryMembers \cup (opt \cap DOMAIN meta)
            /\ Cardinality(MemberNames(genResult)) = Len(genResult)

C10_Witness ==
    /\ genResult # <<>>
    /\ DOMAIN genArgs.props[genArgs.sensor] = {"call"}

\* ------------------------------- gen_ha_config applied to two keys of a registry
\* names a hwmon driver may give a sensor group
IdGroupNames ==
    {G_acpitz, G_coretemp,
     <<"C", "o", "r", "e", "t", "e", "m", "p">>,
     <<"c", "o", "r", "e", "_", "t", "e", "m", "p">>,
     <<"c", "o", "r", "e", "-", "t", "e", "m", "p">>}

\* hosts reporting two sensor groups; sensors_temperatures() returns a dict,
\* so the two names differ
IdHostsAll ==
    {[has_api |-> TRUE, temps |-> << <<g1, <<40>> >>, <<g2, <<55>> >> >>, cpu |-> 7, mem |-> 42] :
        g1 \in IdGroupNames, g2 \in IdGroupNames}

IdHosts == {h \in IdHostsAll : h.temps[1][1] # h.temps[2][1]}

\* two different keys of the registry load_properties builds on such a host
IdInputs ==
    UNION {{[sensor |-> load_properties(h).keys[i], other |-> load_properties(h).keys[j],
             props |-> load_properties(h).props, base_topic |-> MQTT_BASE_TOPIC] :
               i \in 8..9, j \in 1..9} : h \in IdHosts}

IdInit ==
    /\ cfgFile = [exists |-> FALSE, data |-> EmptyMap]
    /\ host = [has_api |-> FALSE, temps |-> <<>>, cpu |-> 7, mem |-> 42]
    /\ net = [sent |-> 10, recv |-> 20]
    /\ now = 1
    /\ genArgs \in {x \in IdInputs : x.sensor # x.other}
    /\ genResult = <<>>
    /\ ProcessInit

IdCall ==
    /\ genResult = <<>>
    /\ genResult' = <<gen_ha_config(genArgs.sensor, genArgs.props, genArgs.base_topic),
                      gen_ha_config(genArgs.other, genArgs.props, genArgs.base_topic)>>
    /\ UNCHANGED <<procVars, envVars, schedVars, netVars, genArgs>>

SpecIds == IdInit /\ [][IdCall]_vars

\* C11: for two distinct metric keys of one registry, the unique_id and the
\* object_id that gen_ha_config derives are distinct, also when the keys are
\* sensor group names differing only in case or word separators.
C11_UniqueIdsDistinct ==
    genResult # <<>> =>
        /\ MemberValue(genResult[1], "unique_id") # MemberValue(genResult[2], "unique_id")
        /\ MemberValue(genResult[1], "object_id") # MemberValue(genResult[2], "object_id")

\* C12: a run whose loaded configuration lacks a required value (broker host,
\* broker port, base topic, discovery prefix, period) constructs no broker
\* session, issues no connect, starts no network loop and publishes nothing.
C12_MissingValueFailsBeforeSession ==
    (mainpc \notin {"start", "exited"} /\ ~ (DOMAIN Args \subseteq DOMAIN config)) =>
        /\ session = "none"
        /\ ~ loopRunning
        /\ log = NoLog

\* every publish call logged in the run, and how many of them are on topic t
WholeLog == log.on_connect \o log.status
CountOn(t) == Cardinality({i \in DOMAIN WholeLog : WholeLog[i].topic = t})

C14_TemperatureOfOwnGroup ==
    /\ (NumKeys > 0 /\ host.has_api) =>
          /\ NumKeys = Len(StaticKeys) + Len(host.temps)
          /\ \A g \in DOMAIN host.temps :
                properties.keys[Len(StaticKeys) + g] = host.temps[g][1]
    /\ \A j \in DOMAIN log.status : \A g \in DOMAIN host.temps :
          log.status[j].topic = statusArgs.base_topic \o <<"/">> \o host.temps[g][1] =>
              log.status[j].payload = host.temps[g][2][1]

\* C15: a metric value is published only while the session is Connected: not
\* before the first connect callback, and not between a connection loss and
\* the next connect callback.
C15_ValuesOnlyWhileConnected ==
    [][Len(log'.status) > Len(log.status) => (connects >= 1 /\ session = "Connected")]_vars

\* C16: a connect callback neither reads nor writes the rate store and calls
\* no sampling function: the step of the network thread that runs on_connect
\* leaves the store, the rates returned and the calls of rate as they were.
C16_ConnectLeavesRateStore ==
    [][connects' > connects =>
          /\ last' = last
          /\ rateCalls' = rateCalls
          /\ reported' = reported
          /\ net' = net]_vars

\* a reconnect between two executions of status, the second reporting a rate
C16_Witness ==
    /\ connects >= 2
    /\ ticksAtConnect >= 1
    /\ tick > ticksAtConnect
    /\ \E i \in DOMAIN rateCalls : rateCalls[i].had /\ rateCalls[i].exc = "none"

\* C17: a connect callback that reports a refused or failed connection
\* publishes nothing.
C17_RefusedConnectPublishesNothing ==
    [][(connects' > connects /\ session' # "Connected") =>
          log'.on_connect = log.on_connect]_vars

\* the discovery record the connect callback c published for entry i
DiscoveryRecord(c, i) == log.on_connect[(c - 1) * (NumKeys + 1) + 1 + i].payload

\* C18: every discovery record advertises the topics in use: its state_topic
\* is the topic status publishes the key's values on, its availability_topic
\* is the topic of the "online" message and of the last will, and
\* payload_available / payload_not_available are the payloads of those two.
C18_AdvertisedTopicsAreUsed ==
    \A c \in 1..connects : \A i \in 1..NumKeys :
        /\ MemberValue(DiscoveryRecord(c, i), "name") = properties.keys[i]
        /\ \A j \in DOMAIN log.status :
              ((j - 1) % NumKeys) + 1 = i =>
                  log.status[j].topic = MemberValue(DiscoveryRecord(c, i), "state_topic")
        /\ MemberValue(DiscoveryRecord(c, i), "availability_topic")
              = log.on_connect[(c - 1) * (NumKeys + 1) + 1].topic
        /\ MemberValue(DiscoveryRecord(c, i), "payload_available")
              = log.on_connect[(c - 1) * (NumKeys + 1) + 1].payload
        /\ will.set
        /\ MemberValue(DiscoveryRecord(c, i), "availability_topic") = will.topic
        /\ MemberValue(DiscoveryRecord(c, i), "payload_not_available") = will.payload

C18_Witness ==
    /\ connects >= 1
    /\ tick >= 1
    /\ will.set
    /\ Len(log.status) >= NumKeys
    /\ NumKeys = 9

\* C19: a call rate(k, v) reads and writes the entry of k only: every other
\* key keeps its entry, the pair the call works from is k's own, and between
\* executions of status the store stays as the last call left it.
C19_RateTouchesOnlyItsKey ==
    /\ \A i \in DOMAIN rateCalls :
          LET r == rateCalls[i]
          IN  /\ DOMAIN r.last \subseteq DOMAIN r.before \cup {r.key}
              /\ \A k \in DOMAIN r.before \ {r.key} :
                    k \in DOMAIN r.last /\ r.last[k] = r.before[k]
              /\ r.had => r.prev = r.before[r.key]
              /\ (r.had /\ r.exc = "none") =>
                    r.ret = ToFloat(DecimalDivide(r.value - r.before[r.key][2],
                                                  r.time - r.before[r.key][1]))
    /\ rateCalls # <<>> => last = rateCalls[Len(rateCalls)].last

\* a tick on which upload and download, each with history, report different rates
C19_Witness ==
    /\ Len(rateCalls) = 2
    /\ rateCalls[1].key = K_upload /\ rateCalls[2].key = K_download
    /\ rateCalls[1].had /\ rateCalls[2].had
    /\ rateCalls[1].exc = "none" /\ rateCalls[2].exc = "none"
    /\ rateCalls[1].ret # rateCalls[2].ret
    /\ rateCalls[2].last[K_upload] = <<rateCalls[1].time, rateCalls[1].value>>

\* the required keys a configuration file holds
RequiredPresent(f) == IF f.exists THEN DOMAIN f.data \cap DOMAIN Args ELSE {}

\* the step on which a run of main ends
RunExits == mainpc # "exited" /\ mainpc' = "exited"

\* C20: a run started on a configuration file holding every required key does
\* not exit; a run that exits because the file or a required key is missing
\* leaves a file with strictly more required keys, the values it held
\* unchanged (so that restarts lead to the scheduler loop).
C20_ConfigRepairedThenRuns ==
    [][RunExits =>
          /\ RequiredPresent(cfgFile) # DOMAIN Args
          /\ exc' \in {"FileNotFoundError", "KeyError"} =>
                /\ RequiredPresent(cfgFile) \subseteq RequiredPresent(cfgFile')
                /\ RequiredPresent(cfgFile) # RequiredPresent(cfgFile')
                /\ \A k \in RequiredPresent(cfgFile) : cfgFile'.data[k] = cfgFile.data[k]]_vars
====
